---- MODULE Spec2Model ----
(***************************************************************************)
(* Model of the proof-of-work gate bot (src/bot.py).                       *)
(*                                                                         *)
(* The handlers are coroutines run by one asyncio event loop: the code     *)
(* between two awaits runs without interruption, and another handler may   *)
(* run while one is suspended in an await.  An action of this module is    *)
(* one such uninterrupted segment: a "start" action runs a handler from    *)
(* its first line up to its first await (or to its return); a "return"     *)
(* action resolves the awaited platform call, with success or with an      *)
(* exception, and runs the handler up to its next await (or to its end).   *)
(*                                                                         *)
(* Strings are sequences of characters; a character is a one-element name  *)
(* ("0", "a", " ", and "sup2" for U+00B2 SUPERSCRIPT TWO).                 *)
(***************************************************************************)
EXTENDS Integers, Sequences, FiniteSets, TLC

\* ------------------------------------------------------------------ bounds
\* handler invocations dispatched in one run
MaxEvents == 3
\* handler invocations suspended in an await at the same time
MaxTasks == 2
\* characters of a text message
MaxTextLen == 2

\* ------------------------------------------------------- program constants
DEFAULT_DIFFICULTY == 2

\* the registry's keys, (chat_id, user_id): two members of chat 1, one of
\* whom is in chat 2 as well
Keys == {<<1, 1>>, <<1, 2>>, <<2, 1>>}

\* generate_challenge's default length (16 in the code), scaled down
ChallengeLength == 1

\* string.ascii_letters + string.digits, cut to two characters
Alnum == {"a", "1"}
\* the characters a text message is made of
TextChars == {"0", "1", "a", " ", "sup2"}
\* the characters str.strip() removes
Whitespace == {" "}
\* the characters str.isdigit() accepts: every Unicode character whose
\* Numeric_Type is Decimal or Digit, which U+00B2 is
UnicodeDigits == {"0", "1", "sup2"}
\* the decimal digits 0-9
AsciiDigits == {"0", "1"}

\* the status values of a chat member
Statuses == {"creator", "administrator", "member", "restricted", "left", "kicked"}

\* a text message that reaches handle_user_reply: filters.TEXT lets no empty
\* text through
Texts == UNION {[1..n -> TextChars] : n \in 1..MaxTextLen}

NoNonce == <<>>

\* the user ids of the members
Users == {k[2] : k \in Keys}
\* the members of a chat
Members(chat_id) == {u \in Users : <<chat_id, u>> \in Keys}
\* no replied-to message, no target
NoUser == 0
\* the username of each member
Username(u) == IF u = 1 THEN <<"x">> ELSE <<"y">>
\* context.args of a /mute command: none, or a first argument
NoArgs == <<>>
MuteArgs == {NoArgs, <<"@", "x">>, <<"x">>, <<"@", "y">>}

\* --------------------------------------------------------- string helpers
RECURSIVE LStrip(_)
LStrip(s) == IF s # <<>> /\ Head(s) \in Whitespace THEN LStrip(Tail(s)) ELSE s

RECURSIVE RStrip(_)
RStrip(s) ==
    IF s # <<>> /\ s[Len(s)] \in Whitespace
    THEN RStrip(SubSeq(s, 1, Len(s) - 1))
    ELSE s

\* str.strip()
Strip(s) == RStrip(LStrip(s))

\* str.isdigit(): at least one character, and all of them digits
IsDigit(s) == s # <<>> /\ \A i \in 1..Len(s) : s[i] \in UnicodeDigits

\* the UTF-8 bytes of one character
Utf8(c) ==
    CASE c = "0" -> <<48>>
      [] c = "1" -> <<49>>
      [] c = "a" -> <<97>>
      [] c = " " -> <<32>>
      [] c = "sup2" -> <<194, 178>>

\* str.encode("utf-8")
RECURSIVE Encode(_)
Encode(s) == IF s = <<>> THEN <<>> ELSE Utf8(Head(s)) \o Encode(Tail(s))

\* hashlib.sha256(...).hexdigest(), scaled down: a digest of DigestLen hex
\* characters that depends on every byte and on the bytes' order
HashSeed == 5
HashMult == 17
HashMod == 83
DigestLen == 3

RECURSIVE HashBytes(_, _)
HashBytes(h, bytes) ==
    IF bytes = <<>> THEN h
    ELSE HashBytes((h * HashMult + Head(bytes)) % HashMod, Tail(bytes))

HexChar(n) ==
    <<"0", "1", "2", "3", "4", "5", "6", "7",
      "8", "9", "a", "b", "c", "d", "e", "f">>[n + 1]

RECURSIVE Pow16(_)
Pow16(n) == IF n = 0 THEN 1 ELSE 16 * Pow16(n - 1)

Sha256Hex(bytes) ==
    LET h == HashBytes(HashSeed, bytes)
    IN  [i \in 1..DigestLen |-> HexChar((h \div Pow16(DigestLen - i)) % 16)]

\* a prefix test that fails on the empty prefix
StartsWithNonEmpty(s, prefix) ==
    /\ Len(prefix) > 0
    /\ Len(prefix) <= Len(s)
    /\ SubSeq(s, 1, Len(prefix)) = prefix

\* str.startswith
StartsWith(s, prefix) ==
    Len(prefix) <= Len(s) /\ SubSeq(s, 1, Len(prefix)) = prefix

\* "0" * difficulty
Zeros(difficulty) == [i \in 1..difficulty |-> "0"]

\* int(nonce_str) followed by str(): the decimal string without its leading
\* zeros
RECURSIVE DropLeadingZeros(_)
DropLeadingZeros(s) ==
    IF Len(s) > 1 /\ Head(s) = "0" THEN DropLeadingZeros(Tail(s)) ELSE s

\* the hash check on the candidate read as a number
PowCheckParsedNumber(challenge, nonce_str, difficulty) ==
    StartsWith(Sha256Hex(Encode(challenge \o DropLeadingZeros(nonce_str))),
               Zeros(difficulty))

\* lines 124-126: the digest of challenge + nonce_str starts with
\* "0" * difficulty
PowCheck(challenge, nonce_str, difficulty) ==
    LET digest_hex == Sha256Hex(Encode(challenge \o nonce_str))
    IN  StartsWith(digest_hex, Zeros(difficulty))

\* generate_challenge(): any string of `length` alphanumeric characters
generate_challenge(length) == [1..length -> Alnum]

\* build_pow_url(): the URL carries the secret (m=) and the difficulty (d=)
build_pow_url(message, difficulty) == [m |-> message, d |-> difficulty]

NoUrl == [m |-> <<>>, d |-> 0]

\* ------------------------------------------------------------ the registry
\* pending_challenges is a dict: a set of entries, one per key it holds
Entry(key, challenge, difficulty) ==
    [key |-> key, challenge |-> challenge, difficulty |-> difficulty]

\* key in pending_challenges
Contains(reg, key) == \E e \in reg : e.key = key

\* a lookup by the user id alone, whatever the chat
LookupByUser(reg, key) ==
    CHOOSE e \in reg : e.key[2] = key[2]

\* pending_challenges[key]
Lookup(reg, key) == CHOOSE e \in reg : e.key = key

\* pending_challenges.setdefault(key, (challenge, difficulty)): the first
\* record of a key stays
SetItemKeepFirst(reg, key, challenge, difficulty) ==
    IF Contains(reg, key) THEN reg
    ELSE reg \cup {Entry(key, challenge, difficulty)}

\* an assignment that keeps the entry the key already has
SetItemAppend(reg, key, challenge, difficulty) ==
    reg \cup {Entry(key, challenge, difficulty)}

\* pending_challenges[key] = (challenge, difficulty)
SetItem(reg, key, challenge, difficulty) ==
    {e \in reg : e.key # key} \cup {Entry(key, challenge, difficulty)}

\* a pop that removes nothing
PopKeep(reg, key) == reg

\* pending_challenges.pop(key, None)
Pop(reg, key) == {e \in reg : e.key # key}

\* ------------------------------------------------------------------ state
VARIABLES
    pending_challenges,  \* the registry
    canSend,             \* the platform's send permission of each pair
    tasks,               \* the handler invocations suspended in an await
    nEvents,             \* handler invocations dispatched so far
    hist,                \* per pair: issuances, acceptances, failed attempts
                         \* at the current record, nonce accepted since the
                         \* last issuance
    last                 \* what the last step did

vars == <<pending_challenges, canSend, tasks, nEvents, hist, last>>

Slots == 1..MaxTasks

\* a suspended invocation: its handler, the await it is in, and its locals
Task(handler, pc, key, challenge, difficulty) ==
    [handler |-> handler, pc |-> pc, key |-> key,
     challenge |-> challenge, difficulty |-> difficulty,
     target |-> NoUser, username |-> <<>>]

\* a suspended invocation of mute: its target and the username it looks for
MuteTask(pc, key, target, username) ==
    [Task("mute", pc, key, <<>>, 0) EXCEPT !.target = target,
                                          !.username = username]

\* the event loop can suspend one more invocation
CanSuspend == Len(tasks) < MaxTasks

\* the invocation in slot t is suspended in one of the awaits `pcs`
SuspendedAt(t, pcs) == t \in DOMAIN tasks /\ tasks[t].pc \in pcs

\* the platform call a handler suspended at pc is waiting for
CallAt(pc) ==
    CASE pc \in {"nm_restrict", "tp_restrict", "nc_restrict", "mu_restrict"}
             -> "restrict"
      [] pc = "mu_admins" -> "get_chat_administrators"
      [] pc = "ur_restore" -> "restore"
      [] pc = "nm_send" -> "send_message"
      [] pc \in {"tp_reply", "nc_reply", "ur_invalid_reply",
                 "ur_success_reply", "ur_reject_reply", "he_reply",
                 "mu_usage_reply", "mu_reply"} -> "reply_text"
      [] OTHER -> "none"

\* what a step did: the handler and whether the step started it or resumed
\* it, the pair, the outcome of a submission and whether it repeated the
\* nonce accepted since the pair's last issuance, the platform call the step
\* ended in, whether the awaited call succeeded, the URL a send delivered,
\* and the previous status of a join the bot reacted to
NoLast ==
    [handler |-> "none", step |-> "none", key |-> <<0, 0>>,
     outcome |-> "none", repeat |-> FALSE, call |-> "none", ok |-> TRUE,
     url |-> NoUrl, old_status |-> "none"]

NoHist == [issued |-> 0, accepted |-> 0, failed |-> 0, won |-> NoNonce]

\* the history of a pair after an issuance
Issued(h) == [h EXCEPT !.issued = @ + 1, !.failed = 0, !.won = NoNonce]

Init ==
    /\ pending_challenges = {}
    /\ canSend = [k \in Keys |-> TRUE]
    /\ tasks = <<>>
    /\ nEvents = 0
    /\ hist = [k \in Keys |-> NoHist]
    /\ last = NoLast

\* an exception of the awaited permission call ends the handler
ExceptionPropagates(ok) == ok

\* try: await ...restrict_chat_member(...) / except Exception: pass (or
\* print): the handler goes on whether the call succeeded or raised
ExceptionSwallowed(ok) == TRUE

\* restrict_chat_member(can_send_messages=False), when it succeeds
Restricted(perm, key, ok) == IF ok THEN [perm EXCEPT ![key] = FALSE] ELSE perm

\* restrict_chat_member(can_send_messages=True, ...), when it succeeds
Restored(perm, key, ok) == IF ok THEN [perm EXCEPT ![key] = TRUE] ELSE perm

\* the handler suspended in slot t ends
Finish(t) ==
    tasks' = [i \in 1..(Len(tasks) - 1) |-> IF i < t THEN tasks[i] ELSE tasks[i + 1]]

\* --------------------------------------------------- handle_new_member
\* a membership change the bot reacts to, counting previous status
\* "restricted" as already being a member
ShouldChallengeRestrictedIsMember(new_status, old_status) ==
    /\ new_status = "member"
    /\ old_status \notin {"member", "administrator", "creator", "restricted"}

\* line 39
ShouldChallenge(new_status, old_status) ==
    /\ new_status = "member"
    /\ old_status \notin {"member", "administrator", "creator"}

\* lines 34-54: up to the restrict call, or to the return
HandleNewMember(chat_id, user_id, old_status, new_status, is_bot) ==
    LET key == <<chat_id, user_id>>
        ev == [NoLast EXCEPT !.handler = "handle_new_member", !.step = "start",
                             !.key = key]
    IN  /\ nEvents < MaxEvents
        /\ nEvents' = nEvents + 1
        /\ IF ShouldChallenge(new_status, old_status) /\ ~is_bot
           THEN /\ CanSuspend
                /\ tasks' = Append(tasks,
                       Task("handle_new_member", "nm_restrict", key, <<>>, 0))
                /\ last' = [ev EXCEPT !.call = CallAt("nm_restrict"),
                                      !.old_status = old_status]
           ELSE /\ tasks' = tasks
                /\ last' = ev
        /\ UNCHANGED <<pending_challenges, canSend, hist>>

\* lines 47-77: the restrict call returns or raises; the record is stored and
\* the welcome message with the URL is sent
NmRestrictReturn(t, ok, challenge) ==
    LET key == tasks[t].key
        difficulty == DEFAULT_DIFFICULTY
    IN  /\ SuspendedAt(t, {"nm_restrict"})
        /\ canSend' = Restricted(canSend, key, ok)
        /\ IF ExceptionSwallowed(ok)
           THEN /\ pending_challenges' =
                       SetItem(pending_challenges, key, challenge, difficulty)
                /\ hist' = [hist EXCEPT ![key] = Issued(@)]
                /\ tasks' = [tasks EXCEPT ![t] =
                       Task("handle_new_member", "nm_send", key, challenge, difficulty)]
                /\ last' = [NoLast EXCEPT !.handler = "handle_new_member",
                                          !.step = "return", !.key = key,
                                          !.ok = ok, !.call = CallAt("nm_send")]
           ELSE /\ Finish(t)
                /\ last' = [NoLast EXCEPT !.handler = "handle_new_member",
                                          !.step = "return", !.key = key,
                                          !.ok = ok]
                /\ UNCHANGED <<pending_challenges, hist>>
        /\ UNCHANGED nEvents

\* ---------------------------------------------------------- trigger_pow
\* lines 79-91: up to the restrict call
TriggerPow(chat_id, user_id) ==
    LET key == <<chat_id, user_id>>
    IN  /\ nEvents < MaxEvents
        /\ nEvents' = nEvents + 1
        /\ CanSuspend
        /\ tasks' = Append(tasks,
               Task("trigger_pow", "tp_restrict", key, <<>>, 0))
        /\ last' = [NoLast EXCEPT !.handler = "trigger_pow", !.step = "start",
                                  !.key = key, !.call = CallAt("tp_restrict")]
        /\ UNCHANGED <<pending_challenges, canSend, hist>>

\* lines 84-107: the restrict call returns or raises; the record is stored
\* and the reply with the URL is sent
TpRestrictReturn(t, ok, challenge) ==
    LET key == tasks[t].key
        difficulty == DEFAULT_DIFFICULTY
    IN  /\ SuspendedAt(t, {"tp_restrict"})
        /\ canSend' = Restricted(canSend, key, ok)
        /\ IF ExceptionSwallowed(ok)
           THEN /\ pending_challenges' =
                       SetItem(pending_challenges, key, challenge, difficulty)
                /\ hist' = [hist EXCEPT ![key] = Issued(@)]
                /\ tasks' = [tasks EXCEPT ![t] =
                       Task("trigger_pow", "tp_reply", key, challenge, difficulty)]
                /\ last' = [NoLast EXCEPT !.handler = "trigger_pow",
                                          !.step = "return", !.key = key,
                                          !.ok = ok, !.call = CallAt("tp_reply")]
           ELSE /\ Finish(t)
                /\ last' = [NoLast EXCEPT !.handler = "trigger_pow",
                                          !.step = "return", !.key = key,
                                          !.ok = ok]
                /\ UNCHANGED <<pending_challenges, hist>>
        /\ UNCHANGED nEvents

\* -------------------------------------------------------- new_challenge
\* lines 179-188: the record is stored, then restrict_user is awaited
NewChallenge(chat_id, user_id, challenge) ==
    LET key == <<chat_id, user_id>>
        difficulty == DEFAULT_DIFFICULTY
    IN  /\ nEvents < MaxEvents
        /\ nEvents' = nEvents + 1
        /\ CanSuspend
        /\ pending_challenges' =
               SetItem(pending_challenges, key, challenge, difficulty)
        /\ hist' = [hist EXCEPT ![key] = Issued(@)]
        /\ tasks' = Append(tasks,
               Task("new_challenge", "nc_restrict", key, challenge, difficulty))
        /\ last' = [NoLast EXCEPT !.handler = "new_challenge", !.step = "start",
                                  !.key = key, !.call = CallAt("nc_restrict")]
        /\ UNCHANGED canSend

\* lines 145-153 and 188-195: restrict_user returns (it prints an exception
\* and goes on); the reply with the URL is sent
NcRestrictReturn(t, ok) ==
    LET key == tasks[t].key
        challenge == tasks[t].challenge
        difficulty == tasks[t].difficulty
    IN  /\ SuspendedAt(t, {"nc_restrict"})
        /\ canSend' = Restricted(canSend, key, ok)
        /\ IF ExceptionSwallowed(ok)
           THEN /\ tasks' = [tasks EXCEPT ![t] =
                       Task("new_challenge", "nc_reply", key, challenge, difficulty)]
                /\ last' = [NoLast EXCEPT !.handler = "new_challenge",
                                          !.step = "return", !.key = key,
                                          !.ok = ok, !.call = CallAt("nc_reply")]
           ELSE /\ Finish(t)
                /\ last' = [NoLast EXCEPT !.handler = "new_challenge",
                                          !.step = "return", !.key = key,
                                          !.ok = ok]
        /\ UNCHANGED <<pending_challenges, hist, nEvents>>

\* lines 59-77, 96-107, 190-195: the message with the URL built from the
\* handler's challenge and difficulty is delivered, or the send raises; either
\* way the handler ends
UrlSendReturn(t, ok) ==
    /\ SuspendedAt(t, {"nm_send", "tp_reply", "nc_reply"})
    /\ Finish(t)
    /\ last' = [NoLast EXCEPT
           !.handler = tasks[t].handler, !.step = "return",
           !.key = tasks[t].key, !.ok = ok,
           !.url = IF ok
                   THEN build_pow_url(tasks[t].challenge, tasks[t].difficulty)
                   ELSE NoUrl]
    /\ UNCHANGED <<pending_challenges, canSend, hist, nEvents>>

\* ----------------------------------------------------- handle_user_reply
\* lines 115-126: what a text message of the pair `key` comes to
Verify(reg, key, text) ==
    IF ~Contains(reg, key) THEN "NoChallenge"
    ELSE LET nonce_str == Strip(text)
             rec == Lookup(reg, key)
         IN  IF ~IsDigit(nonce_str) THEN "InvalidFormat"
             ELSE IF PowCheck(rec.challenge, nonce_str, rec.difficulty)
                  THEN "Accepted"
                  ELSE "Rejected"

\* a registry that drops the record on a wrong nonce as well
RegistryAfterRetireOnRejected(reg, key, outcome) ==
    IF outcome \in {"Accepted", "Rejected"} THEN Pop(reg, key) ELSE reg

\* a registry that drops the record on a malformed submission as well
RegistryAfterRetireOnInvalid(reg, key, outcome) ==
    IF outcome \in {"Accepted", "InvalidFormat"} THEN Pop(reg, key) ELSE reg

\* lines 126-127: the record is popped when the hash check passed, and on no
\* other path
RegistryAfter(reg, key, outcome) ==
    IF outcome = "Accepted" THEN Pop(reg, key) ELSE reg

\* a handler that restores the permission after a wrong nonce as well
AwaitAfterRestoreOnRejected(outcome) ==
    CASE outcome = "NoChallenge" -> "idle"
      [] outcome = "InvalidFormat" -> "ur_invalid_reply"
      [] outcome = "Accepted" -> "ur_restore"
      [] outcome = "Rejected" -> "ur_restore"

\* a handler that answers a message of a pair without a record
AwaitAfterAnswerAll(outcome) ==
    CASE outcome = "NoChallenge" -> "ur_invalid_reply"
      [] outcome = "InvalidFormat" -> "ur_invalid_reply"
      [] outcome = "Accepted" -> "ur_restore"
      [] outcome = "Rejected" -> "ur_reject_reply"

\* the await the handler reaches first: none (line 116), the reply of line
\* 120, the restore call of line 129, the reply of line 143
AwaitAfter(outcome) ==
    CASE outcome = "NoChallenge" -> "idle"
      [] outcome = "InvalidFormat" -> "ur_invalid_reply"
      [] outcome = "Accepted" -> "ur_restore"
      [] outcome = "Rejected" -> "ur_reject_reply"

\* the history of a pair after a submission
Submitted(h, outcome, nonce_str) ==
    CASE outcome = "Accepted" -> [h EXCEPT !.accepted = @ + 1, !.won = nonce_str]
      [] outcome \in {"Rejected", "InvalidFormat"} -> [h EXCEPT !.failed = @ + 1]
      [] OTHER -> h

\* lines 109-143: up to the first await, or to the return of line 116
HandleUserReply(chat_id, user_id, text) ==
    LET key == <<chat_id, user_id>>
        outcome == Verify(pending_challenges, key, text)
        pc == AwaitAfter(outcome)
    IN  /\ nEvents < MaxEvents
        /\ nEvents' = nEvents + 1
        /\ pending_challenges' = RegistryAfter(pending_challenges, key, outcome)
        /\ hist' = [hist EXCEPT ![key] = Submitted(@, outcome, Strip(text))]
        /\ IF pc = "idle"
           THEN tasks' = tasks
           ELSE /\ CanSuspend
                /\ tasks' = Append(tasks,
                       Task("handle_user_reply", pc, key, <<>>, 0))
        /\ last' = [NoLast EXCEPT !.handler = "handle_user_reply",
                                  !.step = "start", !.key = key,
                                  !.outcome = outcome, !.call = CallAt(pc),
                                  !.repeat = (hist[key].won # NoNonce
                                              /\ Strip(text) = hist[key].won)]
        /\ UNCHANGED canSend

\* lines 128-141: the restore call returns or raises; the success reply is
\* sent
UrRestoreReturn(t, ok) ==
    LET key == tasks[t].key
    IN  /\ SuspendedAt(t, {"ur_restore"})
        /\ canSend' = Restored(canSend, key, ok)
        /\ IF ExceptionSwallowed(ok)
           THEN /\ tasks' = [tasks EXCEPT ![t] =
                       Task("handle_user_reply", "ur_success_reply", key, <<>>, 0)]
                /\ last' = [NoLast EXCEPT !.handler = "handle_user_reply",
                                          !.step = "return", !.key = key,
                                          !.ok = ok,
                                          !.call = CallAt("ur_success_reply")]
           ELSE /\ Finish(t)
                /\ last' = [NoLast EXCEPT !.handler = "handle_user_reply",
                                          !.step = "return", !.key = key,
                                          !.ok = ok]
        /\ UNCHANGED <<pending_challenges, hist, nEvents>>

\* lines 120-121, 141, 143: the reply is delivered, or the send raises; either
\* way the handler ends
UrReplyReturn(t, ok) ==
    /\ SuspendedAt(t, {"ur_invalid_reply", "ur_success_reply", "ur_reject_reply"})
    /\ Finish(t)
    /\ last' = [NoLast EXCEPT !.handler = "handle_user_reply", !.step = "return",
                              !.key = tasks[t].key, !.ok = ok]
    /\ UNCHANGED <<pending_challenges, canSend, hist, nEvents>>

\* ----------------------------------------------------------------- hello
\* line 156: up to the reply
Hello(chat_id, user_id) ==
    LET key == <<chat_id, user_id>>
    IN  /\ nEvents < MaxEvents
        /\ nEvents' = nEvents + 1
        /\ CanSuspend
        /\ tasks' = Append(tasks, Task("hello", "he_reply", key, <<>>, 0))
        /\ last' = [NoLast EXCEPT !.handler = "hello", !.step = "start",
                                  !.key = key, !.call = CallAt("he_reply")]
        /\ UNCHANGED <<pending_challenges, canSend, hist>>

\* ------------------------------------------------------------------ mute
\* str.lstrip('@')
RECURSIVE LStripAt(_)
LStripAt(s) ==
    IF Len(s) > 0 /\ Head(s) = "@" THEN LStripAt(Tail(s)) ELSE s

\* lines 168-171: the first of the chat's administrators with the username
\* (usernames are unique), or no target
FindTarget(chat_id, administrators, username) ==
    LET found == {u \in administrators : Username(u) = username}
    IN  IF found = {} THEN NoUser ELSE CHOOSE u \in found : TRUE

\* lines 159-168 and 173-174: up to the first await: the restrict call when
\* the command replies to a message, the administrators' list when it has an
\* argument, the usage reply otherwise
Mute(chat_id, user_id, reply_to, args) ==
    LET key == <<chat_id, user_id>>
        pc == IF reply_to # NoUser THEN "mu_restrict"
              ELSE IF args # NoArgs THEN "mu_admins"
              ELSE "mu_usage_reply"
        username == IF pc = "mu_admins" THEN LStripAt(args) ELSE <<>>
    IN  /\ nEvents < MaxEvents
        /\ nEvents' = nEvents + 1
        /\ CanSuspend
        /\ tasks' = Append(tasks, MuteTask(pc, key, reply_to, username))
        /\ last' = [NoLast EXCEPT !.handler = "mute", !.step = "start",
                                  !.key = key, !.call = CallAt(pc)]
        /\ UNCHANGED <<pending_challenges, canSend, hist>>

\* lines 168-176: get_chat_administrators returns the administrators, or
\* raises and ends the handler; the target is looked up among them, and the
\* handler goes on to the restrict call or to the usage reply
MuAdminsReturn(t, ok, administrators) ==
    LET key == tasks[t].key
        target == FindTarget(key[1], administrators, tasks[t].username)
        pc == IF target = NoUser THEN "mu_usage_reply" ELSE "mu_restrict"
    IN  /\ SuspendedAt(t, {"mu_admins"})
        /\ administrators \subseteq Members(key[1])
        /\ IF ok
           THEN /\ tasks' = [tasks EXCEPT ![t] =
                       MuteTask(pc, key, target, tasks[t].username)]
                /\ last' = [NoLast EXCEPT !.handler = "mute",
                                          !.step = "return", !.key = key,
                                          !.call = CallAt(pc)]
           ELSE /\ Finish(t)
                /\ last' = [NoLast EXCEPT !.handler = "mute",
                                          !.step = "return", !.key = key,
                                          !.ok = ok]
        /\ UNCHANGED <<pending_challenges, canSend, hist, nEvents>>

\* lines 145-153 and 176-177: restrict_user returns (it prints an exception
\* and goes on); the reply that names the target is sent
MuRestrictReturn(t, ok) ==
    LET key == tasks[t].key
        target == tasks[t].target
    IN  /\ SuspendedAt(t, {"mu_restrict"})
        /\ canSend' = Restricted(canSend, <<key[1], target>>, ok)
        /\ IF ExceptionSwallowed(ok)
           THEN /\ tasks' = [tasks EXCEPT ![t] =
                       MuteTask("mu_reply", key, target, tasks[t].username)]
                /\ last' = [NoLast EXCEPT !.handler = "mute",
                                          !.step = "return", !.key = key,
                                          !.ok = ok, !.call = CallAt("mu_reply")]
           ELSE /\ Finish(t)
                /\ last' = [NoLast EXCEPT !.handler = "mute",
                                          !.step = "return", !.key = key,
                                          !.ok = ok]
        /\ UNCHANGED <<pending_challenges, hist, nEvents>>

\* lines 156, 174, 177: the reply is delivered, or the send raises; either
\* way the handler ends
PlainReplyReturn(t, ok) ==
    /\ SuspendedAt(t, {"he_reply", "mu_usage_reply", "mu_reply"})
    /\ Finish(t)
    /\ last' = [NoLast EXCEPT !.handler = tasks[t].handler, !.step = "return",
                              !.key = tasks[t].key, !.ok = ok]
    /\ UNCHANGED <<pending_challenges, canSend, hist, nEvents>>

\* ------------------------------------------------------------------- next
Next ==
    \/ \E k \in Keys, old \in Statuses, new \in Statuses,
          bot \in BOOLEAN : HandleNewMember(k[1], k[2], old, new, bot)
    \/ \E t \in Slots, ok \in BOOLEAN,
          c \in generate_challenge(ChallengeLength) : NmRestrictReturn(t, ok, c)
    \/ \E k \in Keys : TriggerPow(k[1], k[2])
    \/ \E t \in Slots, ok \in BOOLEAN,
          c \in generate_challenge(ChallengeLength) : TpRestrictReturn(t, ok, c)
    \/ \E k \in Keys, c \in generate_challenge(ChallengeLength) :
          NewChallenge(k[1], k[2], c)
    \/ \E t \in Slots, ok \in BOOLEAN : NcRestrictReturn(t, ok)
    \/ \E t \in Slots, ok \in BOOLEAN : UrlSendReturn(t, ok)
    \/ \E k \in Keys, text \in Texts : HandleUserReply(k[1], k[2], text)
    \/ \E t \in Slots, ok \in BOOLEAN : UrRestoreReturn(t, ok)
    \/ \E t \in Slots, ok \in BOOLEAN : UrReplyReturn(t, ok)
    \/ \E k \in Keys : Hello(k[1], k[2])
    \/ \E k \in Keys, args \in MuteArgs :
          \E reply_to \in Members(k[1]) \cup {NoUser} :
              Mute(k[1], k[2], reply_to, args)
    \/ \E t \in Slots, ok \in BOOLEAN, administrators \in SUBSET Users :
          MuAdminsReturn(t, ok, administrators)
    \/ \E t \in Slots, ok \in BOOLEAN : MuRestrictReturn(t, ok)
    \/ \E t \in Slots, ok \in BOOLEAN : PlainReplyReturn(t, ok)

Spec == Init /\ [][Next]_vars

\* ------------------------------------- a platform that grants every call
\* the runs in which every restrict_chat_member call succeeds (the bot is an
\* administrator with the right to restrict, the member is none)
NextPermOk ==
    \/ \E k \in Keys, old \in Statuses, new \in Statuses,
          bot \in BOOLEAN : HandleNewMember(k[1], k[2], old, new, bot)
    \/ \E t \in Slots, c \in generate_challenge(ChallengeLength) :
          NmRestrictReturn(t, TRUE, c)
    \/ \E k \in Keys : TriggerPow(k[1], k[2])
    \/ \E t \in Slots, c \in generate_challenge(ChallengeLength) :
          TpRestrictReturn(t, TRUE, c)
    \/ \E k \in Keys, c \in generate_challenge(ChallengeLength) :
          NewChallenge(k[1], k[2], c)
    \/ \E t \in Slots : NcRestrictReturn(t, TRUE)
    \/ \E t \in Slots, ok \in BOOLEAN : UrlSendReturn(t, ok)
    \/ \E k \in Keys, text \in Texts : HandleUserReply(k[1], k[2], text)
    \/ \E t \in Slots : UrRestoreReturn(t, TRUE)
    \/ \E t \in Slots, ok \in BOOLEAN : UrReplyReturn(t, ok)
    \/ \E k \in Keys : Hello(k[1], k[2])
    \/ \E k \in Keys, args \in MuteArgs :
          \E reply_to \in Members(k[1]) \cup {NoUser} :
              Mute(k[1], k[2], reply_to, args)
    \/ \E t \in Slots, ok \in BOOLEAN, administrators \in SUBSET Users :
          MuAdminsReturn(t, ok, administrators)
    \/ \E t \in Slots : MuRestrictReturn(t, TRUE)
    \/ \E t \in Slots, ok \in BOOLEAN : PlainReplyReturn(t, ok)

SpecPermOk == Init /\ [][NextPermOk]_vars

\* ------------------------------------------- the verification on its own
\* the difficulties a deployment is configured with (line 23): none, and the
\* default
Difficulties == {0, DEFAULT_DIFFICULTY}

\* lines 122-126 read the difficulty from the record, whatever it is: the
\* registry of a deployment whose difficulty constant is d, with a challenge
\* outstanding for one pair
InitVerify ==
    /\ \E d \in Difficulties, k \in Keys,
          challenge \in generate_challenge(ChallengeLength) :
          pending_challenges = {Entry(k, challenge, d)}
    /\ canSend = [k \in Keys |-> FALSE]
    /\ tasks = <<>>
    /\ nEvents = 0
    /\ hist = [k \in Keys |-> IF Contains(pending_challenges, k)
                               THEN Issued(NoHist) ELSE NoHist]
    /\ last = NoLast

\* the submissions and their replies
NextVerify ==
    \/ \E k \in Keys, text \in Texts : HandleUserReply(k[1], k[2], text)
    \/ \E t \in Slots, ok \in BOOLEAN : UrRestoreReturn(t, ok)
    \/ \E t \in Slots, ok \in BOOLEAN : UrReplyReturn(t, ok)

SpecVerify == InitVerify /\ [][NextVerify]_vars

\* ------------------------------------------------------- reading a step
\* the step dispatches a text message of the pair last'.key to
\* handle_user_reply
IsReplyStep == nEvents' = nEvents + 1 /\ last'.handler = "handle_user_reply"

\* the step dispatches the text message `text` of the pair last'.key
ReplyStep(text) == HandleUserReply(last'.key[1], last'.key[2], text)

\* the pair has a record in the registry
HasRecord(reg, key) == \E e \in reg : e.key = key

\* the candidate is a non-empty string of the decimal digits 0-9
IsDecimalLiteral(s) == Len(s) > 0 /\ \A i \in 1..Len(s) : s[i] \in AsciiDigits

\* hex(sha256(secret || candidate)) starts with `difficulty` zeros
HashPasses(e, candidate) ==
    LET digest == Sha256Hex(Encode(e.challenge \o candidate))
    IN  /\ Len(digest) >= e.difficulty
        /\ \A i \in 1..e.difficulty : digest[i] = "0"

\* ---------------------------------------------------------------- claims
\* C1 (state part): right after the step in which a submission was Accepted,
\* the pair has no record.
C1_RetiredInSameStep ==
    (last.handler = "handle_user_reply" /\ last.step = "start"
        /\ last.outcome = "Accepted")
    => ~HasRecord(pending_challenges, last.key)

\* C1 (step part): a submission that repeats the nonce accepted for the pair,
\* with no issuance for the pair since, yields NoChallenge: no call, no new
\* suspended handler, registry and permissions unchanged.
C1_RepeatIsNoChallenge ==
    (IsReplyStep /\ hist[last'.key].won # NoNonce) =>
    \A text \in Texts :
        (Strip(text) = hist[last'.key].won /\ ReplyStep(text))
        => /\ last'.outcome = "NoChallenge"
           /\ last'.call = "none"
           /\ tasks' = tasks
           /\ pending_challenges' = pending_challenges
           /\ canSend' = canSend

\* C1: an Accepted submission removes the pair's record within its own step,
\* and a later submission of the same winning nonce, with no issuance in
\* between, yields NoChallenge and changes nothing.
C1_RetireOnSuccess ==
    [](C1_RetiredInSameStep) /\ [][C1_RepeatIsNoChallenge]_vars

\* C1 witness: a winning nonce was accepted and then submitted again.
C1_Witness ==
    /\ last.handler = "handle_user_reply"
    /\ last.outcome = "NoChallenge"
    /\ last.repeat
    /\ hist[last.key].accepted = 1

\* C2 (state part): a pair has had no more Accepted outcomes than issuances,
\* and strictly fewer while it holds a record.
C2_AcceptedAtMostOncePerIssue ==
    \A k \in Keys :
        /\ hist[k].accepted <= hist[k].issued
        /\ HasRecord(pending_challenges, k) => hist[k].accepted < hist[k].issued

\* C2 (step part): while the handler of an Accepted submission is still
\* suspended and no issuance for the pair has happened since, another
\* submission for the pair sees NoChallenge.
C2_LoserSeesNoChallenge ==
    (/\ IsReplyStep
     /\ hist[last'.key].won # NoNonce
     /\ \E t \in DOMAIN tasks :
            /\ tasks[t].key = last'.key
            /\ tasks[t].pc \in {"ur_restore", "ur_success_reply"})
    => \A text \in Texts : ReplyStep(text) => last'.outcome = "NoChallenge"

\* C2: under every interleaving, a record is Accepted at most once, and the
\* submission that loses the race sees NoChallenge.
C2_SingleRetirement ==
    [](C2_AcceptedAtMostOncePerIssue) /\ [][C2_LoserSeesNoChallenge]_vars

\* C2 witness: a second submission arrived while the handler of the accepted
\* one was still waiting for its restore call.
C2_Witness ==
    /\ last.handler = "handle_user_reply"
    /\ last.step = "start"
    /\ last.outcome = "NoChallenge"
    /\ hist[last.key].won # NoNonce
    /\ \E t \in DOMAIN tasks :
        tasks[t].key = last.key /\ tasks[t].pc = "ur_restore"

\* C3 (state part): no two entries of the registry have the same key.
C3_OneRecordPerKey ==
    \A e1 \in pending_challenges, e2 \in pending_challenges :
        e1.key = e2.key => e1 = e2

\* C3 (step part): a step that issues for a pair leaves the pair exactly one
\* entry, with a generated secret and the configured difficulty, and leaves
\* the other pairs' entries alone.
C3_IssueReplaces ==
    \A k \in Keys :
        hist'[k].issued = hist[k].issued + 1
        => /\ Cardinality({e \in pending_challenges' : e.key = k}) = 1
           /\ \A e \in pending_challenges' :
                e.key = k => /\ e.difficulty = DEFAULT_DIFFICULTY
                             /\ e.challenge \in generate_challenge(ChallengeLength)
           /\ {e \in pending_challenges' : e.key # k}
                = {e \in pending_challenges : e.key # k}

\* C3: the registry holds at most one record per (group, member) pair, and
\* issuing for a pair that has a record replaces it.
C3_IdempotentOverwrite ==
    [](C3_OneRecordPerKey) /\ [][C3_IssueReplaces]_vars

\* C3 witness: a pair was issued a second record while it held the first.
C3_Witness ==
    \E k \in Keys :
        /\ hist[k].issued = 2
        /\ hist[k].accepted = 0
        /\ HasRecord(pending_challenges, k)
        /\ last.key = k
        /\ last.call \in {"restrict", "send_message", "reply_text"}

\* the step appended a handler suspended in the await `pc` for last'.key
Suspends(pc) ==
    /\ Len(tasks') = Len(tasks) + 1
    /\ SubSeq(tasks', 1, Len(tasks)) = tasks
    /\ tasks'[Len(tasks')].pc = pc
    /\ tasks'[Len(tasks')].key = last'.key

\* the step resumed the handler in slot t from a reply and ended it
EndsAfterReply(t) == \E ok \in BOOLEAN : UrReplyReturn(t, ok)

\* C4 (Rejected step): the registry and the permissions are as before, the
\* pair still has its record, and the handler is suspended in the reply of
\* line 143, not in a permission call.
C4_RejectedKeepsRecord ==
    (IsReplyStep /\ last'.outcome = "Rejected")
    => /\ pending_challenges' = pending_challenges
       /\ HasRecord(pending_challenges', last'.key)
       /\ canSend' = canSend
       /\ last'.call = "reply_text"
       /\ Suspends("ur_reject_reply")

\* C4 (after the Rejected reply): the handler ends without another call.
C4_RejectedEnds ==
    \A t \in DOMAIN tasks :
        (tasks[t].pc = "ur_reject_reply" /\ EndsAfterReply(t))
        => /\ pending_challenges' = pending_challenges
           /\ canSend' = canSend
           /\ Len(tasks') = Len(tasks) - 1
           /\ last'.call = "none"

\* C4 (no lockout): whatever the number of failed attempts at the record, a
\* decimal candidate whose hash passes for the current record is Accepted.
C4_NoLockout ==
    (IsReplyStep /\ HasRecord(pending_challenges, last'.key)) =>
    \A text \in Texts :
        (/\ IsDecimalLiteral(Strip(text))
         /\ \E e \in pending_challenges :
                e.key = last'.key /\ HashPasses(e, Strip(text))
         /\ ReplyStep(text))
        => last'.outcome = "Accepted"

\* C4: a Rejected submission leaves the pair's record unchanged and makes no
\* permission call, and after any number of Rejected or InvalidFormat
\* submissions a nonce that passes for the current record is still Accepted.
C4_RejectedIsRetryable ==
    [][C4_RejectedKeepsRecord /\ C4_RejectedEnds /\ C4_NoLockout]_vars

\* C4 witness: a submission was Accepted after a failed attempt at the same
\* record.
C4_Witness ==
    /\ last.handler = "handle_user_reply"
    /\ last.step = "start"
    /\ last.outcome = "Accepted"
    /\ hist[last.key].failed >= 1

\* C5 (InvalidFormat step): the registry and the permissions are as before,
\* the pair still has its record, and the handler is suspended in the prompt
\* of line 120.
C5_InvalidKeepsRecord ==
    (IsReplyStep /\ last'.outcome = "InvalidFormat")
    => /\ pending_challenges' = pending_challenges
       /\ HasRecord(pending_challenges', last'.key)
       /\ canSend' = canSend
       /\ last'.call = "reply_text"
       /\ Suspends("ur_invalid_reply")

\* C5 (after the prompt): the handler ends without another call.
C5_InvalidEnds ==
    \A t \in DOMAIN tasks :
        (tasks[t].pc = "ur_invalid_reply" /\ EndsAfterReply(t))
        => /\ pending_challenges' = pending_challenges
           /\ canSend' = canSend
           /\ Len(tasks') = Len(tasks) - 1
           /\ last'.call = "none"

\* C5: an InvalidFormat submission never retires the challenge: the record is
\* unchanged, no restrict or restore call is made, and the user is prompted.
C5_InvalidFormatNeverRetires ==
    [][C5_InvalidKeepsRecord /\ C5_InvalidEnds]_vars

\* C5 witness: a malformed submission of a pair with a record was answered
\* with the prompt.
C5_Witness ==
    /\ last.handler = "handle_user_reply"
    /\ last.step = "start"
    /\ last.outcome = "InvalidFormat"
    /\ last.call = "reply_text"
    /\ HasRecord(pending_challenges, last.key)

\* C6 (as claimed): for a pair with a record, a text that is not a non-empty
\* string of the digits 0-9 after trimming yields InvalidFormat.
C6_NonDecimalIsInvalidFormat ==
    [][IsReplyStep =>
        \A text \in Texts :
            (/\ ~IsDecimalLiteral(Strip(text))
             /\ HasRecord(pending_challenges, last'.key)
             /\ ReplyStep(text))
            => last'.outcome = "InvalidFormat"]_vars

\* C7: a text message of a pair without a record is ignored: no reply, no
\* permission call, no suspended handler, registry and permissions unchanged.
C7_NoRecordIsIgnored ==
    [][(IsReplyStep /\ ~HasRecord(pending_challenges, last'.key))
        => /\ last'.outcome = "NoChallenge"
           /\ last'.call = "none"
           /\ tasks' = tasks
           /\ pending_challenges' = pending_challenges
           /\ canSend' = canSend]_vars

\* C7 witness: a message of a pair that was never challenged was ignored.
C7_Witness ==
    /\ last.handler = "handle_user_reply"
    /\ last.outcome = "NoChallenge"
    /\ last.call = "none"
    /\ hist[last.key].issued = 0

\* C8: for a pair with record (secret, difficulty) and a decimal candidate,
\* the submission is Accepted exactly when the hex digest of secret followed
\* by the trimmed candidate, as submitted, starts with `difficulty` zeros.
C8_AcceptedIffHashPasses ==
    [][(IsReplyStep /\ HasRecord(pending_challenges, last'.key)) =>
        \A text \in Texts :
            (IsDecimalLiteral(Strip(text)) /\ ReplyStep(text))
            => \A e \in pending_challenges :
                e.key = last'.key
                => (last'.outcome = "Accepted" <=> HashPasses(e, Strip(text)))]_vars

\* C8 witness: a candidate with a leading zero was Accepted.
C8_Witness ==
    /\ last.handler = "handle_user_reply"
    /\ last.step = "start"
    /\ last.outcome = "Accepted"
    /\ Len(hist[last.key].won) = 2
    /\ hist[last.key].won[1] = "0"

\* the step dispatches a membership notification of the pair last'.key
IsJoinStep == nEvents' = nEvents + 1 /\ last'.handler = "handle_new_member"

\* the notifications the bot is to react to: the new status is member, the
\* previous one is not member, administrator or owner, the account is no bot
Qualifies(old, new, bot) ==
    /\ new = "member"
    /\ old \notin {"member", "administrator", "creator"}
    /\ ~bot

\* C9 (notification step): the handler goes on to the restrict call for
\* every notification that qualifies, and returns with no call for every
\* other one.  Either way the step itself leaves the registry alone.
C9_TriggersIffQualifies ==
    IsJoinStep =>
    /\ \A old \in {"restricted", "left", "kicked"} :
          HandleNewMember(last'.key[1], last'.key[2], old, "member", FALSE)
          => (Suspends("nm_restrict") /\ last'.call = "restrict")
    /\ \/ (tasks' = tasks /\ last'.call = "none")
       \/ \A old \in Statuses, new \in Statuses, bot \in BOOLEAN :
             HandleNewMember(last'.key[1], last'.key[2], old, new, bot)
             => Qualifies(old, new, bot)
    /\ pending_challenges' = pending_challenges
    /\ canSend' = canSend

\* C9 (after the restrict call): the record is stored for the pair, with the
\* configured difficulty, and the welcome message is sent.
C9_TriggeredJoinStores ==
    \A t \in DOMAIN tasks :
        (/\ tasks[t].pc = "nm_restrict"
         /\ \E ok \in BOOLEAN, c \in generate_challenge(ChallengeLength) :
                NmRestrictReturn(t, ok, c))
        => /\ \E e \in pending_challenges' :
                /\ e.key = tasks[t].key
                /\ e.difficulty = DEFAULT_DIFFICULTY
                /\ e.challenge = tasks'[t].challenge
           /\ tasks'[t].pc = "nm_send"

\* C9: a membership notification leads to issuance (restrict attempted,
\* record stored) if and only if the new status is member, the previous
\* status is not member, administrator or owner, and the account is not a
\* bot; in every other case nothing is stored, called or sent.
C9_JoinIssuesIffQualifies ==
    [][C9_TriggersIffQualifies /\ C9_TriggeredJoinStores]_vars

\* C9 witness: a member whose previous status was restricted was challenged.
C9_Witness ==
    /\ last.handler = "handle_new_member"
    /\ last.step = "start"
    /\ last.old_status = "restricted"
    /\ last.call = "restrict"

\* the awaits of a restrict or restore call
PermissionAwaits == {"nm_restrict", "tp_restrict", "nc_restrict", "ur_restore"}

\* the step resumed the handler in slot t from its permission call
ResumesFromPermissionCall(t) ==
    \E ok \in BOOLEAN :
        \/ \E c \in generate_challenge(ChallengeLength) :
              NmRestrictReturn(t, ok, c) \/ TpRestrictReturn(t, ok, c)
        \/ NcRestrictReturn(t, ok)
        \/ UrRestoreReturn(t, ok)

\* the await of the notification that follows a permission call
NotificationAfter(pc) ==
    CASE pc = "nm_restrict" -> "nm_send"
      [] pc = "tp_restrict" -> "tp_reply"
      [] pc = "nc_restrict" -> "nc_reply"
      [] pc = "ur_restore" -> "ur_success_reply"

\* C10: when a handler's restrict or restore call returns, successfully or
\* with an exception, the handler goes on to send its notification, and the
\* registry is what the handler makes it on success: the join and /triggerpow
\* handlers store the pair's record, the /new and submission handlers, which
\* changed the registry before the call, leave it as it is.
C10_PermissionFailureIsSwallowed ==
    [][\A t \in DOMAIN tasks :
        (tasks[t].pc \in PermissionAwaits /\ ResumesFromPermissionCall(t))
        => /\ Len(tasks') = Len(tasks)
           /\ tasks'[t].pc = NotificationAfter(tasks[t].pc)
           /\ last'.call \in {"send_message", "reply_text"}
           /\ IF tasks[t].pc \in {"nm_restrict", "tp_restrict"}
              THEN pending_challenges' =
                      {e \in pending_challenges : e.key # tasks[t].key}
                      \cup {[key |-> tasks[t].key,
                             challenge |-> tasks'[t].challenge,
                             difficulty |-> DEFAULT_DIFFICULTY]}
              ELSE pending_challenges' = pending_challenges]_vars

\* C10 witness: the restrict call of a join failed, the record is stored and
\* the welcome message is being sent.
C10_Witness ==
    /\ last.handler = "handle_new_member"
    /\ last.step = "return"
    /\ ~last.ok
    /\ last.call = "send_message"
    /\ HasRecord(pending_challenges, last.key)

\* C11: a notification that the member left the chat (or was removed from
\* it) revokes the pair's record: after it a submission for the pair, whatever
\* its text, yields NoChallenge.
C11_LeaveRevokesRecord ==
    [][(IsJoinStep /\ HasRecord(pending_challenges, last'.key))
       => \A old \in Statuses, new \in {"left", "kicked"}, bot \in BOOLEAN :
             HandleNewMember(last'.key[1], last'.key[2], old, new, bot)
             => \A text \in Texts :
                   Verify(pending_challenges', last'.key, text) = "NoChallenge"]_vars

\* the step issues the secret c for the pair k: /new stores it at once, the
\* join and /triggerpow handlers when their restrict call has returned
IssuesSecret(k, c) ==
    \/ NewChallenge(k[1], k[2], c)
    \/ \E t \in DOMAIN tasks, ok \in BOOLEAN :
          /\ tasks[t].key = k
          /\ NmRestrictReturn(t, ok, c) \/ TpRestrictReturn(t, ok, c)

\* the step issues a challenge for the pair k, which holds a record already
IsReissueStep(k) ==
    /\ HasRecord(pending_challenges, k)
    /\ hist'[k].issued = hist[k].issued + 1

\* the text is a nonce the code accepts for the record the registry `reg`
\* holds for the pair k
ValidFor(reg, k, text) == Verify(reg, k, text) = "Accepted"

\* C12: a nonce that was valid for the first secret issued to a pair is not
\* Accepted once a second challenge has been issued for the pair.
C12_FirstSecretInvalidated ==
    [][\A k \in Keys :
        IsReissueStep(k)
        => \A text \in Texts :
              ValidFor(pending_challenges, k, text)
              => ~ValidFor(pending_challenges', k, text)]_vars

\* C12 (amended): once a second challenge has been issued for a pair, a nonce
\* that was valid for the first secret is Accepted exactly when the hash of
\* the second secret followed by the nonce has the required zeros as well;
\* the first secret plays no part any more.
C12_SecondSecretDecides ==
    [][\A k \in Keys :
        IsReissueStep(k)
        => \A c \in generate_challenge(ChallengeLength) :
              IssuesSecret(k, c)
              => \A text \in Texts :
                    ValidFor(pending_challenges, k, text)
                    => (ValidFor(pending_challenges', k, text)
                        <=> HashPasses([challenge |-> c,
                                        difficulty |-> DEFAULT_DIFFICULTY],
                                       Strip(text)))]_vars

\* C12 witness: a second challenge has just been issued for a pair, with a
\* secret for which the nonce "00" (valid for the secret "a") does not pass.
C12_Witness ==
    /\ last.handler \in {"handle_new_member", "trigger_pow", "new_challenge"}
    /\ hist[last.key].issued = 2
    /\ hist[last.key].failed = 0
    /\ HasRecord(pending_challenges, last.key)
    /\ ~ValidFor(pending_challenges, last.key, <<"0", "0">>)

\* C13: at difficulty 0 every submission that is a string of decimal digits
\* is Accepted, whatever the secret and the digits, and retires the record.
C13_DifficultyZeroAcceptsAll ==
    [][(/\ IsReplyStep
        /\ HasRecord(pending_challenges, last'.key)
        /\ Lookup(pending_challenges, last'.key).difficulty = 0)
       => \A text \in Texts :
             (ReplyStep(text) /\ IsDecimalLiteral(Strip(text)))
             => /\ last'.outcome = "Accepted"
                /\ ~HasRecord(pending_challenges', last'.key)]_vars

\* C13 witness: the nonce "10" was Accepted; its hash has the two leading
\* zeros of the default difficulty with neither secret, so the record's
\* difficulty was 0.
C13_Witness ==
    /\ last.handler = "handle_user_reply"
    /\ last.outcome = "Accepted"
    /\ hist[last.key].won = <<"1", "0">>
    /\ \A c \in generate_challenge(ChallengeLength) :
          ~HashPasses([challenge |-> c, difficulty |-> DEFAULT_DIFFICULTY],
                      <<"1", "0">>)

\* the member of the chat that has the username, or no user
NamedMember(chat_id, username) ==
    LET found == {u \in Members(chat_id) : Username(u) = username}
    IN  IF found = {} THEN NoUser ELSE CHOOSE u \in found : TRUE

\* C14: a /mute with a @username argument and no replied-to message goes on
\* to restrict the member of the chat that has the username, whoever that
\* member is; it replies with the usage message, and restricts nobody, only
\* when the username names no member.
C14_MuteByUsernameRestrictsMember ==
    [][\A t \in DOMAIN tasks :
        tasks[t].pc = "mu_admins"
        => \A administrators \in SUBSET Members(tasks[t].key[1]) :
              MuAdminsReturn(t, TRUE, administrators)
              => LET named == NamedMember(tasks[t].key[1], tasks[t].username)
                 IN  IF named # NoUser
                     THEN /\ tasks'[t].pc = "mu_restrict"
                          /\ tasks'[t].target = named
                     ELSE tasks'[t].pc = "mu_usage_reply"]_vars

\* the handlers that issue a challenge
IssuingHandlers == {"handle_new_member", "trigger_pow", "new_challenge"}

\* C15: a stored record stays in the registry, with its secret and its
\* difficulty, across every step (submissions and commands of other pairs,
\* /mute, /hello, notifications the bot does not react to, returns of
\* platform calls) except a step of an issuing handler for the same pair,
\* which replaces it, and an Accepted submission of the same pair, which
\* removes it.
C15_RecordsNeverExpire ==
    [][\A k \in Keys :
        HasRecord(pending_challenges, k)
        => \/ /\ HasRecord(pending_challenges', k)
              /\ Lookup(pending_challenges', k) = Lookup(pending_challenges, k)
           \/ /\ last'.handler \in IssuingHandlers
              /\ last'.key = k
              /\ HasRecord(pending_challenges', k)
           \/ /\ last'.handler = "handle_user_reply"
              /\ last'.key = k
              /\ last'.outcome = "Accepted"
              /\ ~HasRecord(pending_challenges', k)]_vars

\* C15 witness: the record issued to a pair at the first event is still
\* there after a /mute and a notification the bot did not react to.
C15_Witness ==
    /\ nEvents = MaxEvents
    /\ last.handler = "handle_new_member"
    /\ last.step = "start"
    /\ last.call = "none"
    /\ HasRecord(pending_challenges, last.key)
    /\ hist[last.key].issued = 1
    /\ \E k \in Keys : ~canSend[k] /\ hist[k].issued = 0

\* C16: with every permission call succeeding, whenever no handler is in
\* flight, each pair that has an outstanding record cannot send.
C16_ChallengedMemberIsRestricted ==
    tasks = <<>>
    => \A k \in Keys : HasRecord(pending_challenges, k) => ~canSend[k]

\* C17 (call): a step ends in a restore-send-permissions call only when it
\* is the start of handle_user_reply for a submission that was Accepted and
\* has removed the pair's record in this step.
C17_RestoreCalledAfterAccept ==
    [][last'.call = "restore"
       => /\ last'.handler = "handle_user_reply"
          /\ last'.step = "start"
          /\ last'.outcome = "Accepted"
          /\ HasRecord(pending_challenges, last'.key)
          /\ ~HasRecord(pending_challenges', last'.key)]_vars

\* C17 (effect): a pair's send permission is restored only by the return of
\* the restore call of a handle_user_reply invocation for that pair.
C17_RestoredByReplyHandlerOnly ==
    [][\A k \in Keys :
        (~canSend[k] /\ canSend'[k])
        => /\ last'.handler = "handle_user_reply"
           /\ last'.key = k
           /\ \E t \in DOMAIN tasks :
                 /\ tasks[t].handler = "handle_user_reply"
                 /\ tasks[t].pc = "ur_restore"
                 /\ tasks[t].key = k
                 /\ UrRestoreReturn(t, TRUE)]_vars

\* C17: the restore call is issued only after an Accepted submission has
\* removed the record, and no other handler or outcome restores a permission.
C17_RestoreOnlyAfterAccept ==
    C17_RestoreCalledAfterAccept /\ C17_RestoredByReplyHandlerOnly

\* C17 witness: the restore call of an Accepted submission has returned and
\* the member can send again.
C17_Witness ==
    /\ last.handler = "handle_user_reply"
    /\ last.step = "return"
    /\ last.ok
    /\ last.call = "reply_text"
    /\ hist[last.key].accepted = 1
    /\ canSend[last.key]
    /\ ~HasRecord(pending_challenges, last.key)

\* an issuing handler for the pair k is suspended in an await
IssuingInFlight(k) ==
    \E t \in DOMAIN tasks :
        tasks[t].key = k /\ tasks[t].handler \in IssuingHandlers

\* C18: when the last step delivered a challenge URL to a pair, no issuing
\* handler for the pair is in flight any more and no submission of the pair
\* has been Accepted, the URL (the one most recently delivered to the pair)
\* carries the secret and the difficulty of the record the registry holds for
\* the pair.
C18_LastDeliveredUrlMatchesRecord ==
    (/\ last.url # NoUrl
     /\ ~IssuingInFlight(last.key)
     /\ hist[last.key].accepted = 0)
    => /\ HasRecord(pending_challenges, last.key)
       /\ last.url = build_pow_url(Lookup(pending_challenges, last.key).challenge,
                                   Lookup(pending_challenges, last.key).difficulty)

\* the awaits in which an issuing handler delivers its URL
UrlSends == {"nm_send", "tp_reply", "nc_reply"}

\* C19 (store): the step in which an invocation of an issuing handler fixes
\* its secret (a new invocation that has one, or a suspended one that had
\* none) stores that secret, with the configured difficulty, as the record of
\* the invocation's pair.
C19_SecretStoredWhenChosen ==
    [][Len(tasks') >= Len(tasks)
       => \A t \in DOMAIN tasks' :
             (/\ tasks'[t].handler \in IssuingHandlers
              /\ tasks'[t].challenge # <<>>
              /\ (t \in DOMAIN tasks => tasks[t].challenge = <<>>))
             => /\ tasks'[t].difficulty = DEFAULT_DIFFICULTY
                /\ Entry(tasks'[t].key, tasks'[t].challenge, DEFAULT_DIFFICULTY)
                       \in pending_challenges']_vars

\* C19 (order): a handler that has reached the await that delivers its URL
\* has fixed, and so stored, its secret.
C19_StoredBeforeSend ==
    \A t \in DOMAIN tasks :
        tasks[t].pc \in UrlSends
        => tasks[t].challenge # <<>> /\ tasks[t].difficulty = DEFAULT_DIFFICULTY

\* C19 (delivery): the URL a handler delivers carries the secret the
\* invocation stored and the configured difficulty.
C19_DeliversStoredSecret ==
    [][\A t \in DOMAIN tasks :
        (tasks[t].pc \in UrlSends /\ UrlSendReturn(t, TRUE))
        => /\ last'.url.m = tasks[t].challenge
           /\ last'.url.d = DEFAULT_DIFFICULTY
           /\ last'.key = tasks[t].key]_vars

\* C19: every issuing handler stores its record before it delivers the URL,
\* and the URL carries the stored secret and the configured difficulty.
C19_StoreBeforeDeliver ==
    /\ C19_SecretStoredWhenChosen
    /\ []C19_StoredBeforeSend
    /\ C19_DeliversStoredSecret

\* C19 witness: a URL has just been delivered, and the registry holds its
\* secret and difficulty for the pair.
C19_Witness ==
    /\ last.url # NoUrl
    /\ last.url.d = DEFAULT_DIFFICULTY
    /\ Entry(last.key, last.url.m, last.url.d) \in pending_challenges

\* the part of the registry that belongs to the pair k
OwnRecord(reg, k) == {e \in reg : e.key = k}

\* C20 (frame): a step of a handler invocation leaves the registry entry of
\* every pair other than the invocation's own (the chat of its event and the
\* user who caused it) as it was.
C20_OtherEntriesUnchanged ==
    [][\A k \in Keys :
        k # last'.key
        => OwnRecord(pending_challenges', k) = OwnRecord(pending_challenges, k)]_vars

\* C20 (outcome): when other pairs have records (the same member in another
\* chat, another member in the same chat), the outcome of a submission is
\* still the one the pair's own record alone gives: no text is answered with
\* another outcome.
C20_OutcomeFromOwnRecord ==
    [][(IsReplyStep
        /\ pending_challenges # OwnRecord(pending_challenges, last'.key))
       => LET own == OwnRecord(pending_challenges, last'.key)
          IN  \A text \in Texts :
                 Verify(own, last'.key, text) # last'.outcome
                 => ~ReplyStep(text)]_vars

\* C20: the challenges of different pairs are independent.
C20_PairsAreIndependent ==
    C20_OtherEntriesUnchanged /\ C20_OutcomeFromOwnRecord

\* C20 witness: user 1 has challenges with different secrets in chat 1 and
\* in chat 2; the submission in chat 2 was Accepted and retired the record of
\* chat 2, and the record of chat 1 is still outstanding.
C20_Witness ==
    /\ last.handler = "handle_user_reply"
    /\ last.key = <<2, 1>>
    /\ last.outcome = "Accepted"
    /\ ~HasRecord(pending_challenges, <<2, 1>>)
    /\ HasRecord(pending_challenges, <<1, 1>>)
    /\ ~ValidFor(pending_challenges, <<1, 1>>, hist[<<2, 1>>].won)

====
